---- MODULE Spec2Model ----
(***************************************************************************)
(* Model of bin/threaded_assess_alignment.py: the orchestrator (main), the *)
(* per-locus workers (spades_worker, scaffold_worker), the single writer   *)
(* (listener) and the metric functions they call.                          *)
(*                                                                         *)
(* Python strings are modelled as sequences of one-token strings.  A file  *)
(* name is a sequence of tokens; "." is the separator token and the        *)
(* literals "Scaffold", "trimmed_align" and "txt" of the source are single *)
(* tokens.  An aligned sequence is a sequence of the characters "A", "C",  *)
(* "-".  A formatted number is the sequence of its characters.             *)
(***************************************************************************)
EXTENDS Integers, Sequences, FiniteSets, TLC

\* ------------------------------------------------------------------ bounds
MaxLoci  == 2      \* loci in the locus map of a whole run
MaxFiles == 2      \* files in one alignment directory
MaxCpus  == 2      \* largest --cpus value tried
MaxSeqLen == 3     \* columns of an alignment given to the metric functions

\* ------------------------------------------------------- string primitives
Prefix(s, n) == SubSeq(s, 1, n)
Drop(s, n)   == SubSeq(s, n + 1, Len(s))

\* str.startswith
StartsWith(s, p) == Len(p) <= Len(s) /\ Prefix(s, Len(p)) = p

\* str.endswith
EndsWith(s, p) == Len(p) <= Len(s) /\ Drop(s, Len(s) - Len(p)) = p

\* "sub in s"
Contains(s, sub) ==
    \E i \in 0..(Len(s) - Len(sub)) : SubSeq(s, i + 1, i + Len(sub)) = sub

\* s.split(sep)[0]: everything before the first separator
SplitFirst(s, sep) ==
    IF \E i \in 1..Len(s) : s[i] = sep
    THEN Prefix(s, (CHOOSE i \in 1..Len(s) :
                       s[i] = sep /\ \A j \in 1..(i - 1) : s[j] # sep) - 1)
    ELSE s

\* s.replace(c, '')
RECURSIVE Remove(_, _)
Remove(s, c) ==
    IF s = <<>> THEN <<>>
    ELSE IF Head(s) = c THEN Remove(Tail(s), c)
         ELSE <<Head(s)>> \o Remove(Tail(s), c)

\* s.lstrip(c)
RECURSIVE LStrip(_, _)
LStrip(s, c) ==
    IF s # <<>> /\ Head(s) = c THEN LStrip(Tail(s), c) ELSE s

\* s.rstrip(c)
RECURSIVE RStrip(_, _)
RStrip(s, c) ==
    IF s # <<>> /\ s[Len(s)] = c THEN RStrip(Prefix(s, Len(s) - 1), c) ELSE s

\* s[:k] for a negative k
SliceToNeg(s, k) == Prefix(s, IF Len(s) + k > 0 THEN Len(s) + k ELSE 0)

\* code points of the characters a formatted number can hold
Ord(c) ==
    CASE c = "." -> 46
      [] c = "0" -> 48 [] c = "1" -> 49 [] c = "2" -> 50 [] c = "3" -> 51
      [] c = "4" -> 52 [] c = "5" -> 53 [] c = "6" -> 54 [] c = "7" -> 55
      [] c = "8" -> 56 [] c = "9" -> 57

\* Python's str < str: lexicographic on code points, a proper prefix is less
RECURSIVE StrLess(_, _)
StrLess(s, t) ==
    IF t = <<>> THEN FALSE
    ELSE IF s = <<>> THEN TRUE
    ELSE IF Ord(Head(s)) # Ord(Head(t)) THEN Ord(Head(s)) < Ord(Head(t))
    ELSE StrLess(Tail(s), Tail(t))

DigitChar(d) == <<"0", "1", "2", "3", "4", "5", "6", "7", "8", "9">>[d + 1]

RECURSIVE IntStr(_)
IntStr(n) ==
    IF n < 10 THEN <<DigitChar(n)>>
    ELSE IntStr(n \div 10) \o <<DigitChar(n % 10)>>

\* "{0:.2f}".format(num / den * 100)
Format2f(num, den) ==
    LET h == (2 * 10000 * num + den) \div (2 * den)
    IN  IntStr(h \div 100) \o <<".">>
          \o <<DigitChar((h % 100) \div 10), DigitChar(h % 10)>>

\* the number a "{0:.2f}" string denotes, in hundredths
RECURSIVE DigitsVal(_)
DigitsVal(s) ==
    IF s = <<>> THEN 0
    ELSE 10 * DigitsVal(Prefix(s, Len(s) - 1)) + (Ord(s[Len(s)]) - 48)

Hundredths(s) == DigitsVal(Remove(s, "."))

\* ------------------------------------------------------ metric calculator
\* mutant: the reference overhang is not trimmed
find_ref_len_untrimmed(a, b) == Len(Remove(a, "-"))

\* find_ref_len(a, b)
find_ref_len(a, b) ==
    LET ltrim == Len(b) - Len(LStrip(b, "-"))
        a1    == IF a[1] # "-" /\ b[1] = "-" THEN Drop(a, ltrim) ELSE a
        rtrim == (Len(b) - Len(RStrip(b, "-"))) * (-1)
        a2    == IF a[Len(a)] # "-" /\ b[Len(b)] = "-"
                 THEN SliceToNeg(a1, rtrim) ELSE a1
    IN  Len(Remove(a2, "-"))

ZipLen(a, b) == IF Len(a) < Len(b) THEN Len(a) ELSE Len(b)

\* mutant: every column counts, also those where the reference has a gap
ExactTotalAllColumns(a, b) == ZipLen(a, b)

ExactTotal(a, b) == Cardinality({i \in 1..ZipLen(a, b) : a[i] # "-"})

ExactMatches(a, b) ==
    Cardinality({i \in 1..ZipLen(a, b) : a[i] # "-" /\ a[i] = b[i]})

\* calculate_exact_alignment divides by total: ZeroDivisionError when the
\* reference sequence holds no base
ExactRaises(a, b) == ExactTotal(a, b) = 0

\* calculate_exact_alignment(aseq, bseq), a "{0:.2f}" string
calculate_exact_alignment(a, b) ==
    Format2f(ExactMatches(a, b), ExactTotal(a, b))

\* ------------------------------------------------------- files on disk
\* literals of the source
Suffix == <<".", "trimmed_align", ".", "txt">>     \* ".trimmed_align.txt"
Marker == <<"Scaffold">>                           \* 'Scaffold'
Gap    == "-"

\* A report file: its name, whether it is zero-length, whether AlignIO can
\* read its alignment block, the two aligned sequences, and its header
\* (scoreLine: "absent" | "text" | "number"; idLine: "absent" | "malformed"
\* | "ok").
MkFile(name, c) == [name |-> name] @@ c

Content(a, b, idv) ==
    [empty |-> FALSE, block |-> "ok", a |-> a, b |-> b,
     scoreLine |-> "number", scoreVal |-> 10, idLine |-> "ok", idVal |-> idv]

EmptyContent == [Content(<<>>, <<>>, 0) EXCEPT !.empty = TRUE]

\* parse_alignment raises when the identity line does not match its pattern
ParseRaises(f) == f.idLine = "malformed"

\* parse_alignment(infile): stats, with the defaults of line 339
parse_alignment(f) ==
    [score |-> IF f.scoreLine = "absent" THEN 0 ELSE f.scoreVal,
     id    |-> IF f.idLine = "ok" THEN f.idVal ELSE 0]

\* AlignIO.read(full_path, 'emboss') raises on a file without a readable
\* alignment
AlignReadRaises(f) == f.empty \/ f.block # "ok"

\* float(stats['score']) raises on a score line that holds no number
ScoreRaises(f) == f.scoreLine = "text"

\* ------------------------------------------------------------ the workers
\* The lists a worker fills while it scans one directory (lines 94 and 203),
\* the flag `aligned`, the variable ref_align_len that outlives one loop
\* iteration (-1: not yet bound), and whether an exception has left the loop.
EmptyScan ==
    [isos |-> <<>>, scores |-> <<>>, ids |-> <<>>, files |-> <<>>,
     cov |-> <<>>, length |-> <<>>, ref_len |-> <<>>, nogap_id |-> <<>>,
     aligned |-> FALSE, ref_align_len |-> -1, raised |-> FALSE]

Raise(st) == [st EXCEPT !.raised = TRUE]

\* lines 135-141 and 258-264: one append to every list but nogap_id;
\* len(a)/len(b) and an unbound ref_align_len raise
AppendStats(st, dir, f, a, b, rl) ==
    IF ParseRaises(f) \/ ScoreRaises(f) \/ Len(b) = 0 \/ rl < 0
    THEN Raise(st)
    ELSE [st EXCEPT
            !.isos    = Append(@, SplitFirst(f.name, ".")),
            !.scores  = Append(@, parse_alignment(f).score),
            !.ids     = Append(@, parse_alignment(f).id),
            !.cov     = Append(@, <<Len(a), Len(b)>>),
            !.length  = Append(@, Len(b)),
            !.ref_len = Append(@, rl),
            !.files   = Append(@, [dir |-> dir, name |-> f.name]),
            !.ref_align_len = rl]

\* mutant: the priority filter is never applied
PrioritySkipsNever(priority, f) == FALSE

\* the priority test of lines 108 and 217
PrioritySkips(priority, f) ==
    priority # <<>> /\ ~StartsWith(f.name, priority)

\* one iteration of the loop of spades_worker (lines 102-141)
SpadesStep(st, dir, f, priority) ==
    IF st.raised \/ ~EndsWith(f.name, Suffix) THEN st
    ELSE IF PrioritySkips(priority, f) THEN st
    ELSE LET st1 == [st EXCEPT !.aligned = TRUE]
         IN  IF AlignReadRaises(f) THEN Raise(st1)
             ELSE LET both == f.a # <<>> /\ f.b # <<>>
                      rl   == IF both THEN find_ref_len(f.a, f.b)
                              ELSE st1.ref_align_len
                      a    == IF both THEN Remove(f.a, Gap) ELSE f.a
                      b    == IF both THEN Remove(f.b, Gap) ELSE f.b
                  IN  AppendStats(st1, dir, f, a, b, rl)

\* mutant: the kind marker is not required
ScaffoldKeepsNoMarker(f) == EndsWith(f.name, Suffix)

\* the file test of scaffold_worker (line 214)
ScaffoldKeeps(f) == Contains(f.name, Marker) /\ EndsWith(f.name, Suffix)

\* one iteration of the loop of scaffold_worker (lines 211-264)
ScaffoldStep(st, dir, f, priority) ==
    IF st.raised \/ ~ScaffoldKeeps(f) THEN st
    ELSE IF PrioritySkips(priority, f) THEN st
    ELSE LET st1 == [st EXCEPT !.aligned = TRUE]
         IN  IF f.empty THEN st1
             ELSE IF AlignReadRaises(f) THEN Raise(st1)
             ELSE LET both == f.a # <<>> /\ f.b # <<>>
                      rl   == IF both THEN find_ref_len(f.a, f.b)
                              ELSE st1.ref_align_len
                      a    == IF both THEN Remove(f.a, Gap) ELSE f.a
                      b    == IF both THEN Remove(f.b, Gap) ELSE f.b
                  IN  IF both /\ ExactRaises(f.a, f.b) THEN Raise(st1)
                      ELSE AppendStats(
                             IF both
                             THEN [st1 EXCEPT !.nogap_id = Append(@,
                                      calculate_exact_alignment(f.a, f.b))]
                             ELSE st1,
                             dir, f, a, b, rl)

\* the whole loop over os.listdir(algn_dir), in listing order
RECURSIVE SpadesScan(_, _, _, _)
SpadesScan(st, dir, files, priority) ==
    IF files = <<>> THEN st
    ELSE SpadesScan(SpadesStep(st, dir, Head(files), priority),
                    dir, Tail(files), priority)

RECURSIVE ScaffoldScan(_, _, _, _)
ScaffoldScan(st, dir, files, priority) ==
    IF files = <<>> THEN st
    ELSE ScaffoldScan(ScaffoldStep(st, dir, Head(files), priority),
                      dir, Tail(files), priority)

Range(s) == {s[i] : i \in 1..Len(s)}

\* list.index(x): the first position holding x
Index(s, x) == CHOOSE i \in 1..Len(s) : s[i] = x /\ \A j \in 1..(i - 1) : s[j] # x

\* max() of a list of numbers
MaxNum(s) == CHOOSE m \in Range(s) : \A x \in Range(s) : x <= m

\* max() of a list of strings
MaxStr(s) == CHOOSE m \in Range(s) : \A x \in Range(s) : ~StrLess(m, x)

\* mutant: a tie on the maximum goes to the last candidate
SpadesBestLast(st) ==
    CHOOSE i \in 1..Len(st.ids) :
        /\ st.ids[i] = MaxNum(st.ids)
        /\ \A j \in (i + 1)..Len(st.ids) : st.ids[j] # MaxNum(st.ids)

\* line 150
SpadesBest(st) == Index(st.ids, MaxNum(st.ids))

\* line 275
ScaffoldBest(st) == Index(st.nogap_id, MaxStr(st.nogap_id))

\* the line put on the queue for list position x (lines 170, 174)
SpadesLine(st, x) ==
    [kind |-> "line", id |-> st.ids[x], cov |-> st.cov[x],
     length |-> st.length[x], iso |-> st.isos[x], ref_len |-> st.ref_len[x],
     file |-> st.files[x]]

\* the line put on the queue for list position x (lines 296, 300)
ScaffoldLine(st, x) ==
    SpadesLine(st, x) @@ [nogap |-> st.nogap_id[x]]

\* What a task does after its loop: [raised, out], out being the lines it
\* puts on the queue, in order.  os.listdir raises on a missing directory;
\* max() raises on an empty list; a list index past the end raises.
Outcome(raised, out) == [raised |-> raised, out |-> out]

spades_worker(dir, d, priority, best_only) ==
    IF ~d.exists THEN Outcome(TRUE, <<>>)
    ELSE LET st == SpadesScan(EmptyScan, dir, d.files, priority)
         IN  IF st.raised THEN Outcome(TRUE, <<>>)
             ELSE IF ~st.aligned THEN Outcome(FALSE, <<>>)
             ELSE IF best_only = "yes"
                  THEN IF st.ids = <<>> THEN Outcome(TRUE, <<>>)
                       ELSE Outcome(FALSE, <<SpadesLine(st, SpadesBest(st))>>)
             ELSE Outcome(FALSE,
                          [x \in 1..Len(st.files) |-> SpadesLine(st, x)])

scaffold_worker(dir, d, priority, best_only) ==
    IF ~d.exists THEN Outcome(TRUE, <<>>)
    ELSE LET st == ScaffoldScan(EmptyScan, dir, d.files, priority)
         IN  IF st.raised THEN Outcome(TRUE, <<>>)
             ELSE IF ~st.aligned THEN Outcome(FALSE, <<>>)
             ELSE IF best_only = "yes"
                  THEN IF st.nogap_id = <<>> THEN Outcome(TRUE, <<>>)
                       ELSE Outcome(FALSE,
                                    <<ScaffoldLine(st, ScaffoldBest(st))>>)
             ELSE LET n == IF Len(st.nogap_id) < Len(st.files)
                           THEN Len(st.nogap_id) ELSE Len(st.files)
                  IN  Outcome(n < Len(st.files),
                              [x \in 1..n |-> ScaffoldLine(st, x)])

\* ---------------------------------------------------------------- inputs
NameA  == <<"A", ".", "Scaffold", ".", "trimmed_align", ".", "txt">>
NameB  == <<"B", ".", "Scaffold", ".", "trimmed_align", ".", "txt">>
NameAB == <<"A", "B", ".", "Scaffold", ".", "trimmed_align", ".", "txt">>
NameAc == <<"A", ".", "contig", ".", "trimmed_align", ".", "txt">>
NameAx == <<"A", ".", "Scaffold", ".", "align", ".", "txt">>

Names == {NameA, NameB, NameAB, NameAc, NameAx}

Perfect   == Content(<<"A", "C">>, <<"A", "C">>, 90)
Half      == Content(<<"A", "C">>, <<"A", "A">>, 95)
Gappy     == Content(<<"A", "C", "-">>, <<"-", "C", "A">>, 90)
Malformed == [Perfect EXCEPT !.idLine = "malformed"]
NoId      == [Half EXCEPT !.idLine = "absent"]

Contents == {Perfect, Half, Gappy, Malformed, NoId, EmptyContent}

Files == {MkFile(n, c) : n \in Names, c \in Contents}

\* listings of at most n files with pairwise different names, in any order
RECURSIVE Listings(_, _)
Listings(fs, n) ==
    IF n = 0 THEN {<<>>}
    ELSE LET shorter == Listings(fs, n - 1)
         IN  shorter \cup
             {Append(l, f) : l \in {m \in shorter : Len(m) = n - 1}, f \in fs}

DistinctNames(l) ==
    \A i, j \in 1..Len(l) : i # j => l[i].name # l[j].name

Missing == [exists |-> FALSE, files |-> <<>>]
Dir(l)  == [exists |-> TRUE, files |-> l]

\* the directories one locus can have
LocusDirs ==
    {Missing} \cup {Dir(l) : l \in {m \in Listings(Files, MaxFiles) :
                                      DistinctNames(m)}}

\* the directories of the loci of a whole run
RunDirs ==
    {Missing, Dir(<<>>), Dir(<<MkFile(NameA, Perfect)>>),
     Dir(<<MkFile(NameB, Half), MkFile(NameA, Perfect)>>)}

Priorities == {<<>>, <<"A">>, <<"B">>}

\* ------------------------------------------------------------- the state
VARIABLES
    args,     \* parsed command line: cpus, priority, best_only, assmb_type
    nloci,    \* number of lines of the locus map; locus i is line i
    tree,     \* tree[i]: the alignment directory of locus i
    mainpc,   \* where main is
    jobs,     \* jobs[i]: state of the task dispatched for locus i
    got,      \* number of job.get() calls that have returned
    res,      \* res[i]: lines task i has still to put, and whether it raises
    lpc,      \* where the listener task is
    msg,      \* the message the listener holds
    q,        \* the manager queue
    table,    \* the lines of the output file
    puts,     \* history: every message put on the queue so far, in order
    env,      \* the file system: can the map be read, the output be appended
    first     \* the records an earlier run on the same inputs appended

vars == <<args, nloci, tree, mainpc, jobs, got, res, lpc, msg, q, table, puts,
          env, first>>

inputs == <<args, nloci, tree, env, first>>

Stop   == [kind |-> "stop"]        \* the message 'stop'
NoMsg  == [kind |-> "none"]
NoWork == Outcome(FALSE, <<>>)

Loci == 1..nloci

\* a line the output file holds before the run
OldLine == [kind |-> "old"]

Env(m, o) == [map_ok |-> m, out_ok |-> o]

NoFirst == [ran |-> FALSE, lines |-> <<>>]

\* the state of main before line 57, for a given command line, map, tree,
\* file system and output file
StartIn(a, n, t, e, old) ==
    /\ args = a
    /\ nloci = n
    /\ tree = t
    /\ mainpc = "pool"
    /\ jobs = <<>>
    /\ got = 0
    /\ res = [i \in 1..n |-> NoWork]
    /\ lpc = "none"
    /\ msg = NoMsg
    /\ q = <<>>
    /\ table = old
    /\ puts = <<>>
    /\ env = e
    /\ first = NoFirst

\* the same with a readable map and a new, writable output file
Start(a, n, t) == StartIn(a, n, t, Env(TRUE, TRUE), <<>>)

Args(c, p, bo, at) ==
    [cpus |-> c, priority |-> p, best_only |-> bo, assmb_type |-> at]

\* a whole run over up to MaxLoci loci
Init ==
    \E c \in (-1)..MaxCpus, bo \in {"yes", "no"}, at \in {"SPAdes", "HGA"},
       n \in 0..MaxLoci, m \in BOOLEAN, o \in BOOLEAN,
       old \in {<<>>, <<OldLine>>} :
      \E t \in [1..n -> RunDirs] :
        StartIn(Args(c, <<>>, bo, at), n, t, Env(m, o), old)

\* a run over one locus, with every directory, policy, kind and priority
InitLocus ==
    \E p \in Priorities, bo \in {"yes", "no"}, at \in {"SPAdes", "HGA"} :
      \/ \E d \in LocusDirs : Start(Args(1, p, bo, at), 1, [i \in {1} |-> d])
      \/ \E d \in RunDirs, m \in BOOLEAN, o \in BOOLEAN :
           StartIn(Args(1, p, bo, at), 1, [i \in {1} |-> d], Env(m, o), <<>>)

\* pool processes that are running a task
Busy ==
    Cardinality({i \in 1..Len(jobs) : jobs[i] = "running"})
      + (IF lpc \in {"get", "write"} THEN 1 ELSE 0)

PoolSize == args.cpus + 1

\* ------------------------------------------------------------------- main
\* lines 57-60: mp.Pool raises on a size below 1; the listener is the first
\* task given to the pool
CreatePool ==
    /\ mainpc = "pool"
    /\ IF PoolSize < 1
       THEN mainpc' = "aborted" /\ lpc' = lpc
       ELSE mainpc' = "dispatch" /\ lpc' = "queued"
    /\ UNCHANGED <<inputs, jobs, got, res, msg, q, table, puts>>

\* line 64: open() raises on a map that cannot be read; the interpreter
\* exits and the pool, with the listener in it, is terminated
MapError ==
    /\ mainpc = "dispatch"
    /\ ~env.map_ok
    /\ mainpc' = "aborted"
    /\ lpc' = "killed"
    /\ UNCHANGED <<inputs, jobs, got, res, msg, q, table, puts>>

\* lines 65-75: one apply_async per line of the map
Dispatch ==
    /\ mainpc = "dispatch"
    /\ env.map_ok
    /\ Len(jobs) < nloci
    /\ jobs' = Append(jobs, "queued")
    /\ UNCHANGED <<inputs, mainpc, got, res, lpc, msg, q, table, puts>>

EndDispatch ==
    /\ mainpc = "dispatch"
    /\ env.map_ok
    /\ Len(jobs) = nloci
    /\ mainpc' = "wait"
    /\ UNCHANGED <<inputs, jobs, got, res, lpc, msg, q, table, puts>>

\* mutant: job.get() does not wait for the task
JobReadyNoWait(j) == TRUE

\* job.get() returns once the task has returned or raised
JobReady(j) == jobs[j] \in {"done", "raised"}

\* the interpreter exits on the uncaught exception: the pool's finalizer
\* terminates every pool process, the manager's shuts the queue down
Terminated(st) == IF st \in {"queued", "running"} THEN "killed" ELSE st

\* lines 78-79: job.get() re-raises the exception of a task
JobGet ==
    /\ mainpc = "wait"
    /\ got < Len(jobs)
    /\ JobReady(got + 1)
    /\ IF jobs[got + 1] = "raised"
       THEN /\ mainpc' = "aborted"
            /\ jobs' = [i \in 1..Len(jobs) |-> Terminated(jobs[i])]
            /\ lpc' = IF lpc \in {"done", "failed"} THEN lpc ELSE "killed"
            /\ got' = got
       ELSE /\ got' = got + 1
            /\ UNCHANGED <<mainpc, jobs, lpc>>
    /\ UNCHANGED <<inputs, res, msg, q, table, puts>>

\* line 81
PutStop ==
    /\ mainpc = "wait"
    /\ got = Len(jobs)
    /\ q' = Append(q, Stop)
    /\ puts' = Append(puts, Stop)
    /\ mainpc' = "join"
    /\ UNCHANGED <<inputs, jobs, got, res, lpc, msg, table>>

\* lines 82-84: join returns when the pool processes have exited, that is
\* when every task given to the pool has returned or raised
Join ==
    /\ mainpc = "join"
    /\ lpc \in {"done", "failed"}
    /\ mainpc' = "done"
    /\ UNCHANGED <<inputs, jobs, got, res, lpc, msg, q, table, puts>>

\* ------------------------------------------------------------ pool tasks
\* a free pool process takes the listener, the first task of the pool
ListenerStart ==
    /\ lpc = "queued"
    /\ Busy < PoolSize
    /\ lpc' = "get"
    /\ UNCHANGED <<inputs, mainpc, jobs, got, res, msg, q, table, puts>>

\* mutant: the queue hands out the newest message first
QueueGetNewest(queue) ==
    [m |-> queue[Len(queue)], rest |-> Prefix(queue, Len(queue) - 1)]

\* queue.get(): the oldest message and the rest of the queue
QueueGet(queue) == [m |-> Head(queue), rest |-> Tail(queue)]

\* lines 326-328
ListenerGet ==
    /\ lpc = "get"
    /\ q # <<>>
    /\ msg' = QueueGet(q).m
    /\ q' = QueueGet(q).rest
    /\ lpc' = IF QueueGet(q).m.kind = "stop" THEN "done" ELSE "write"
    /\ UNCHANGED <<inputs, mainpc, jobs, got, res, table, puts>>

\* mutant: the output file is opened with mode 'w'
FileOverwrite(file, line) == <<line>>

\* open(out_file, 'a') and write: the line goes after what the file holds
FileAppend(file, line) == Append(file, line)

\* lines 329-331: open for append, write, flush
ListenerWrite ==
    /\ lpc = "write"
    /\ env.out_ok
    /\ table' = FileAppend(table, msg)
    /\ lpc' = "get"
    /\ UNCHANGED <<inputs, mainpc, jobs, got, res, msg, q, puts>>

\* lines 329-331 when the append fails: the exception ends the listener task;
\* it is stored in a result nobody reads (line 60) and the pool process
\* is free for the next task
ListenerWriteFails ==
    /\ lpc = "write"
    /\ ~env.out_ok
    /\ lpc' = "failed"
    /\ UNCHANGED <<inputs, mainpc, jobs, got, res, msg, q, table, puts>>

\* the worker main chose for the assembly type (lines 72-75), on locus i
Worker(i) ==
    IF args.assmb_type = "SPAdes"
    THEN spades_worker(i, tree[i], args.priority, args.best_only)
    ELSE scaffold_worker(i, tree[i], args.priority, args.best_only)

\* a free pool process takes the oldest task not yet taken and runs the
\* worker up to its first queue.put
TaskStart(i) ==
    /\ jobs[i] = "queued"
    /\ lpc # "queued"
    /\ \A j \in 1..(i - 1) : jobs[j] # "queued"
    /\ Busy < PoolSize
    /\ jobs' = [jobs EXCEPT ![i] = "running"]
    /\ res' = [res EXCEPT ![i] = Worker(i)]
    /\ UNCHANGED <<inputs, mainpc, got, lpc, msg, q, table, puts>>

\* mutant: the worker appends its line to the output file itself
TaskPutWritesFile(i) ==
    /\ jobs[i] = "running"
    /\ res[i].out # <<>>
    /\ table' = Append(table, Head(res[i].out))
    /\ res' = [res EXCEPT ![i].out = Tail(@)]
    /\ UNCHANGED <<inputs, mainpc, jobs, got, lpc, msg, q, puts>>

\* one queue.put (lines 170, 174, 296, 300)
TaskPut(i) ==
    /\ jobs[i] = "running"
    /\ res[i].out # <<>>
    /\ q' = Append(q, Head(res[i].out))
    /\ puts' = Append(puts, Head(res[i].out))
    /\ res' = [res EXCEPT ![i].out = Tail(@)]
    /\ UNCHANGED <<inputs, mainpc, jobs, got, lpc, msg, table>>

\* the worker returns, or its exception is stored in the job's result
TaskReturn(i) ==
    /\ jobs[i] = "running"
    /\ res[i].out = <<>>
    /\ jobs' = [jobs EXCEPT ![i] = IF res[i].raised THEN "raised" ELSE "done"]
    /\ UNCHANGED <<inputs, mainpc, got, res, lpc, msg, q, table, puts>>

Next ==
    \/ CreatePool
    \/ MapError
    \/ Dispatch
    \/ EndDispatch
    \/ JobGet
    \/ PutStop
    \/ Join
    \/ ListenerStart
    \/ ListenerGet
    \/ ListenerWrite
    \/ ListenerWriteFails
    \/ \E i \in 1..Len(jobs) : TaskStart(i)
    \/ \E i \in 1..Len(jobs) : TaskPut(i)
    \/ \E i \in 1..Len(jobs) : TaskReturn(i)

Spec == Init /\ [][Next]_vars

\* ------------------------------------- runs that exercise the metrics
\* the characters of an aligned sequence
AlignChars == {"A", "C", Gap}

\* every pair of aligned sequences of the same length, up to MaxSeqLen columns
AlignedPairs ==
    UNION {[1..n -> AlignChars] \X [1..n -> AlignChars] : n \in 1..MaxSeqLen}

\* a run over one locus whose directory holds one report with the pair
\* <<a, b>> as its alignment block
InitMetric ==
    \E at \in {"SPAdes", "HGA"} :
      \/ \E ab \in AlignedPairs :
           Start(Args(1, <<>>, "no", at), 1,
                 [i \in {1} |-> Dir(<<MkFile(NameA, Content(ab[1], ab[2], 90))>>)])
      \/ \E m \in BOOLEAN, o \in BOOLEAN :
           StartIn(Args(1, <<>>, "no", at), 1,
                   [i \in {1} |-> Dir(<<MkFile(NameA, Perfect)>>)],
                   Env(m, o), <<>>)

SpecMetric == InitMetric /\ [][Next]_vars

\* ---------------------------------------------------- the program run twice
\* how often each line occurs among the lines a run appended
LineBag(file) ==
    LET lines == SelectSeq(file, LAMBDA m : m.kind = "line")
    IN  [x \in {lines[k] : k \in 1..Len(lines)} |->
           Cardinality({k \in 1..Len(lines) : lines[k] = x})]

\* a first run with --cpus 1
InitTwoRuns ==
    \E bo \in {"yes", "no"}, at \in {"SPAdes", "HGA"}, n \in 1..MaxLoci,
       m \in BOOLEAN, o \in BOOLEAN :
      \E t \in [1..n -> RunDirs] :
        StartIn(Args(1, <<>>, bo, at), n, t, Env(m, o), <<>>)

\* main is started again on the same map, tree and configuration but with a
\* larger --cpus and a new output file, once the first run has ended
Rerun ==
    /\ ~first.ran
    /\ mainpc \in {"done", "aborted"}
    /\ first' = [ran |-> TRUE, lines |-> LineBag(table)]
    /\ \E c \in 2..MaxCpus : args' = [args EXCEPT !.cpus = c]
    /\ mainpc' = "pool"
    /\ jobs' = <<>>
    /\ got' = 0
    /\ res' = [i \in 1..nloci |-> NoWork]
    /\ lpc' = "none"
    /\ msg' = NoMsg
    /\ q' = <<>>
    /\ table' = <<>>
    /\ puts' = <<>>
    /\ UNCHANGED <<nloci, tree, env>>

NextTwoRuns == Next \/ Rerun

SpecTwoRuns == InitTwoRuns /\ [][NextTwoRuns]_vars

SpecLocus == InitLocus /\ [][Next]_vars

\* ------------------------------------------------------- fair scheduling
\* main, the listener and every locus task run in processes of their own
\* (lines 57-60, 73, 75): the operating system lets each of them take a step
\* it stays able to take, and a pool process that stays free takes the next
\* task of the pool
MainStep ==
    \/ CreatePool \/ MapError \/ Dispatch \/ EndDispatch
    \/ JobGet \/ PutStop \/ Join

ListenerStep ==
    ListenerStart \/ ListenerGet \/ ListenerWrite \/ ListenerWriteFails

TaskStep(i) ==
    i \in 1..Len(jobs) /\ (TaskStart(i) \/ TaskPut(i) \/ TaskReturn(i))

Fairness ==
    /\ WF_vars(MainStep)
    /\ WF_vars(ListenerStep)
    /\ \A i \in 1..MaxLoci : WF_vars(TaskStep(i))

SpecFair == Init /\ [][Next]_vars /\ Fairness

TypeOK ==
    /\ mainpc \in {"pool", "dispatch", "wait", "join", "done", "aborted"}
    /\ lpc \in {"none", "queued", "get", "write", "done", "failed", "killed"}
    /\ got <= Len(jobs) /\ Len(jobs) <= nloci

\* ------------------------------------------------ vocabulary of the claims
BestOnly == args.best_only = "yes"
All      == args.best_only = "no"
Contig   == args.assmb_type = "SPAdes"
Scaffold == args.assmb_type = "HGA"

IsLine(m) == m.kind = "line"

\* the records task i has put on the channel, in order
LinesOf(i) == SelectSeq(puts, LAMBDA m : IsLine(m) /\ m.file.dir = i)

\* the task of locus i has run to its end
Finished(i) == i <= Len(jobs) /\ jobs[i] \in {"done", "raised"}

\* the file passes the suffix, kind-marker and priority filters
PassesFilters(f) ==
    /\ EndsWith(f.name, Suffix)
    /\ Scaffold => Contains(f.name, Marker)
    /\ args.priority # <<>> => StartsWith(f.name, args.priority)

\* the files of locus i that pass the filters, in scan order
Retained(i) == SelectSeq(tree[i].files, PassesFilters)

\* a valid candidate: a retained, populated report with a readable alignment
\* block, both metadata lines well formed and bases on both sides
Valid(f) ==
    /\ PassesFilters(f)
    /\ ~f.empty /\ f.block = "ok"
    /\ f.scoreLine = "number" /\ f.idLine = "ok"
    /\ \E k \in 1..Len(f.a) : f.a[k] # Gap
    /\ \E k \in 1..Len(f.b) : f.b[k] # Gap

ValidOf(i) == SelectSeq(tree[i].files, Valid)

\* position of the file called name in the listing of locus i
ScanPos(i, name) ==
    CHOOSE k \in 1..Len(tree[i].files) : tree[i].files[k].name = name

\* the file a record was made from
FileOf(m) == tree[m.file.dir].files[ScanPos(m.file.dir, m.file.name)]

\* ----------------------------------------------------------------- claims
\* C1: the stop message is put on the channel only after every dispatched
\* locus task has completed, and nothing is put on the channel after it.
C1_StopAfterAllTasks ==
    \A k \in 1..Len(puts) :
        puts[k].kind = "stop" =>
            /\ k = Len(puts)
            /\ Len(jobs) = nloci
            /\ \A i \in 1..Len(jobs) : jobs[i] = "done"

C1_Witness ==
    /\ mainpc = "done"
    /\ Len(puts) >= 3
    /\ puts[Len(puts)].kind = "stop"
    /\ \E i, j \in Loci : i # j /\ LinesOf(i) # <<>> /\ LinesOf(j) # <<>>

\* the lines the run has appended to the output table
Appended == SelectSeq(table, IsLine)

\* number of occurrences of x in s
Count(s, x) == Cardinality({k \in 1..Len(s) : s[k] = x})

\* C2: when the run ends, the lines appended to the output table are exactly
\* the multiset of records the tasks put on the channel.
C2_TableIsWhatWasPut ==
    mainpc \in {"done", "aborted"} =>
        LET recs == SelectSeq(puts, IsLine)
        IN  /\ Len(Appended) = Len(recs)
            /\ \A k \in 1..Len(recs) :
                 Count(Appended, recs[k]) = Count(recs, recs[k])

\* C3: a failure confined to one locus ends no other task, does not end the
\* writer and does not abort the run.
C3_FailureIsolated ==
    (\E i \in 1..Len(jobs) : jobs[i] = "raised") =>
        /\ mainpc # "aborted"
        /\ lpc # "killed"
        /\ \A j \in 1..Len(jobs) : jobs[j] # "killed"

\* C4: under BestOnly a locus task puts at most one record, and exactly one
\* when the locus has at least one valid candidate.
C4_BestOnlyOneRecord ==
    \A i \in Loci :
        (BestOnly /\ Finished(i)) =>
            /\ Len(LinesOf(i)) <= 1
            /\ ValidOf(i) # <<>> => Len(LinesOf(i)) = 1

\* C5: under BestOnly with Scaffold kind the record emitted has the largest
\* gap-free identity, as a number, among the locus's valid candidates, and
\* is the earliest such candidate in scan order.
C5_ScaffoldBestIsNumericMax ==
    \A k \in 1..Len(puts) :
        (IsLine(puts[k]) /\ BestOnly /\ Scaffold) =>
            LET i    == puts[k].file.dir
                mine == Hundredths(puts[k].nogap)
                nog(f) == Hundredths(calculate_exact_alignment(f.a, f.b))
            IN  \A n \in 1..Len(tree[i].files) :
                  LET f == tree[i].files[n]
                  IN  Valid(f) =>
                        /\ nog(f) <= mine
                        /\ n < ScanPos(i, puts[k].file.name) => nog(f) < mine

\* C6: under BestOnly with Contig kind the record emitted has the largest
\* reported percent identity among the locus's candidates and is the
\* earliest candidate in scan order that has it.
C6_ContigBestIsMaxFirst ==
    \A k \in 1..Len(puts) :
        (IsLine(puts[k]) /\ BestOnly /\ Contig) =>
            LET i == puts[k].file.dir
                p == ScanPos(i, puts[k].file.name)
            IN  /\ puts[k].id = parse_alignment(FileOf(puts[k])).id
                /\ PassesFilters(FileOf(puts[k]))
                /\ \A n \in 1..Len(tree[i].files) :
                     LET f == tree[i].files[n]
                     IN  PassesFilters(f) =>
                           /\ parse_alignment(f).id <= puts[k].id
                           /\ n < p => parse_alignment(f).id < puts[k].id

\* a tie on the maximum that the earlier file wins although the later one
\* is the priority isolate
C6_Witness ==
    /\ BestOnly /\ Contig /\ args.priority # <<>>
    /\ \E k \in 1..Len(puts) :
         /\ IsLine(puts[k])
         /\ puts[k].iso # args.priority
         /\ LET i == puts[k].file.dir
            IN  \E n \in 1..Len(tree[i].files) :
                  /\ n > ScanPos(i, puts[k].file.name)
                  /\ PassesFilters(tree[i].files[n])
                  /\ SplitFirst(tree[i].files[n].name, ".") = args.priority
                  /\ parse_alignment(tree[i].files[n]).id = puts[k].id

\* the locus has no valid candidate: no file passes the filters or, for
\* Scaffold kind, every file that does is zero-length
NoCandidate(i) ==
    /\ tree[i].exists
    /\ \A n \in 1..Len(tree[i].files) :
         LET f == tree[i].files[n]
         IN  ~PassesFilters(f) \/ (Scaffold /\ f.empty)

\* C7: a locus with zero valid candidates puts zero records on the channel.
C7_NoCandidateNoRecord ==
    \A i \in Loci : NoCandidate(i) => LinesOf(i) = <<>>

\* a Scaffold locus whose retained files are all zero-length, task over
C7_Witness ==
    \E i \in Loci :
        /\ NoCandidate(i) /\ Finished(i) /\ Scaffold
        /\ Retained(i) # <<>>
        /\ \E n \in 1..Len(tree[i].files) : ~PassesFilters(tree[i].files[n])

\* C8: under All a locus with N valid candidate files puts exactly N
\* records, the i-th made from the i-th valid candidate in scan order.
C8_AllOnePerCandidate ==
    \A i \in Loci :
        (All /\ Finished(i)) =>
            /\ Len(LinesOf(i)) = Len(ValidOf(i))
            /\ \A n \in 1..Len(LinesOf(i)) :
                 LinesOf(i)[n].file.name = ValidOf(i)[n].name

\* C9: under All two records of one locus stand in the output table in the
\* order the scanner produced them.
C9_WithinLocusOrder ==
    All =>
      \A p, r \in 1..Len(Appended) :
          (p < r /\ Appended[p].file.dir = Appended[r].file.dir) =>
              ScanPos(Appended[p].file.dir, Appended[p].file.name)
                < ScanPos(Appended[r].file.dir, Appended[r].file.name)

\* two records of one locus in the table with another locus's between them
C9_Witness ==
    /\ All
    /\ \E p, m, r \in 1..Len(Appended) :
         /\ p < m /\ m < r
         /\ Appended[p].file.dir = Appended[r].file.dir
         /\ Appended[m].file.dir # Appended[p].file.dir

\* C10 as stated: with a priority filter P every record's isolate label is P.
C10_LabelEqualsPriority ==
    \A k \in 1..Len(puts) :
        (IsLine(puts[k]) /\ args.priority # <<>>) =>
            puts[k].iso = args.priority

\* C10 amended: with a priority filter P every record comes from a file
\* whose name starts with P.
C10_NameStartsWithPriority ==
    \A k \in 1..Len(puts) :
        (IsLine(puts[k]) /\ args.priority # <<>>) =>
            StartsWith(puts[k].file.name, args.priority)

\* a directory with files of the priority isolate and of another one, and a
\* record of the priority isolate put
C10_Witness ==
    /\ args.priority # <<>>
    /\ \E k \in 1..Len(puts) :
         /\ IsLine(puts[k])
         /\ puts[k].iso = args.priority
         /\ \E n \in 1..Len(tree[puts[k].file.dir].files) :
              LET f == tree[puts[k].file.dir].files[n]
              IN  /\ EndsWith(f.name, Suffix)
                  /\ ~StartsWith(f.name, args.priority)

\* C11: a run with concurrency limit 1 and a run with a larger limit, on the
\* same map, tree and configuration, append the same multiset of records.
C11_SameRecordsAnyCpus ==
    (first.ran /\ mainpc \in {"done", "aborted"}) =>
        LineBag(table) = first.lines

\* C12: with a concurrency limit below 1 or an unreadable locus map the run
\* aborts and no locus task is ever dispatched.
C12_SetupErrorBeforeDispatch ==
    (args.cpus < 1 \/ ~env.map_ok) =>
        /\ Len(jobs) = 0
        /\ mainpc \in {"pool", "dispatch", "aborted"}

\* C13: a failed append is fatal: the run never completes normally after
\* the writer failed, with a record put on the channel missing in the table.
C13_WriteFailureIsFatal ==
    mainpc = "done" =>
        /\ lpc # "failed"
        /\ \A k \in 1..Len(puts) :
             IsLine(puts[k]) =>
                 \E n \in 1..Len(Appended) : Appended[n] = puts[k]

\* a retained, populated report that cannot be parsed: malformed score or
\* identity line, or unreadable alignment block
ParseFails(f) ==
    /\ PassesFilters(f)
    /\ ~f.empty
    /\ f.idLine = "malformed" \/ f.scoreLine = "text" \/ f.block # "ok"

\* C14: when a retained file of a locus fails to parse only that file is
\* dropped: the task does not raise and still emits what its valid
\* candidates call for.
C14_ParseFailureDropsOneFile ==
    \A i \in Loci :
        (Finished(i) /\ \E n \in 1..Len(tree[i].files) :
                            ParseFails(tree[i].files[n])) =>
            /\ jobs[i] = "done"
            /\ All => \A n \in 1..Len(ValidOf(i)) :
                        \E k \in 1..Len(LinesOf(i)) :
                            LinesOf(i)[k].file.name = ValidOf(i)[n].name
            /\ (BestOnly /\ ValidOf(i) # <<>>) => Len(LinesOf(i)) = 1

\* the score marker line or the identity marker line is absent
MarkerAbsent(f) == f.scoreLine = "absent" \/ f.idLine = "absent"

\* C15: parse_alignment fails on a report that lacks the score marker or the
\* identity marker, and no candidate, hence no record, is built from it.
C15_AbsentMarkerIsParseError ==
    \A k \in 1..Len(puts) :
        IsLine(puts[k]) =>
            /\ ParseRaises(FileOf(puts[k])) = MarkerAbsent(FileOf(puts[k]))
            /\ ~MarkerAbsent(FileOf(puts[k]))

\* the task of locus i has been taken by a pool process
Started(i) == i <= Len(jobs) /\ jobs[i] # "queued"

\* number of non-gap characters of a between b's first and b's last non-gap
\* character, inclusive
SpannedBases(a, b) ==
    Cardinality({k \in 1..Len(a) :
                   /\ a[k] # Gap
                   /\ \E i \in 1..k : b[i] # Gap
                   /\ \E j \in k..Len(b) : b[j] # Gap})

\* no column of the alignment holds a gap in both sequences
NoGapGapColumn(a, b) == \A k \in 1..Len(a) : a[k] # Gap \/ b[k] # Gap

Example16a == <<"-", "-", "A", "C", "G", "T", "-", "-">>
Example16b == <<"X", "X", "A", "C", "G", "T", "X", "X">>

\* b holds a non-gap character
HasBase(b) == \E k \in 1..Len(b) : b[k] # Gap

\* C16 as stated: for every pair of equal-length sequences (b with a first
\* and a last non-gap character) find_ref_len is the number of reference
\* bases between the two; the records carry that number.
C16_RefLenIsSpannedBases ==
    /\ \A i \in Loci : Started(i) =>
         \A n \in 1..Len(tree[i].files) :
           LET f == tree[i].files[n]
           IN  HasBase(f.b) => find_ref_len(f.a, f.b) = SpannedBases(f.a, f.b)
    /\ \A k \in 1..Len(puts) :
         IsLine(puts[k]) =>
           puts[k].ref_len = SpannedBases(FileOf(puts[k]).a, FileOf(puts[k]).b)

\* C16 amended: the same for every pair without a column of two gaps, and
\* find_ref_len("--ACGT--", "XXACGTXX") = 4.
C16_RefLenOfAlignment ==
    /\ find_ref_len(Example16a, Example16b) = 4
    /\ \A i \in Loci : Started(i) =>
         \A n \in 1..Len(tree[i].files) :
           LET f == tree[i].files[n]
           IN  (f.a # <<>> /\ NoGapGapColumn(f.a, f.b)) =>
                 find_ref_len(f.a, f.b) = SpannedBases(f.a, f.b)
    /\ \A k \in 1..Len(puts) :
         (IsLine(puts[k])
            /\ NoGapGapColumn(FileOf(puts[k]).a, FileOf(puts[k]).b)) =>
           puts[k].ref_len = SpannedBases(FileOf(puts[k]).a, FileOf(puts[k]).b)

\* a record whose reference overhangs the assembled sequence at both ends
C16_Witness ==
    \E k \in 1..Len(puts) :
        /\ IsLine(puts[k])
        /\ LET a == FileOf(puts[k]).a
               b == FileOf(puts[k]).b
           IN  /\ NoGapGapColumn(a, b)
               /\ b[1] = Gap /\ b[Len(b)] = Gap
               /\ puts[k].ref_len = 1
               /\ Len(Remove(a, Gap)) = 3

\* matches and reference bases of an alignment, counted column by column
RefBases(a)      == Cardinality({k \in 1..Len(a) : a[k] # Gap})
RefMatches(a, b) == Cardinality({k \in 1..Len(a) : a[k] # Gap /\ a[k] = b[k]})

\* s is 100 * m / t rounded to two decimals, between 0.00 and 100.00
IsPercentOf(s, m, t) ==
    LET h == Hundredths(s)
        d == 10000 * m - h * t
    IN  /\ Len(s) >= 4 /\ s[Len(s) - 2] = "."
        /\ 0 <= h /\ h <= 10000
        /\ 2 * (IF d < 0 THEN -d ELSE d) <= t

\* the alignment without the columns where a holds a gap
RECURSIVE DropGapColumns(_, _)
DropGapColumns(a, b) ==
    IF a = <<>> THEN <<<<>>, <<>>>>
    ELSE LET rest == DropGapColumns(Tail(a), Tail(b))
         IN  IF Head(a) = Gap THEN rest
             ELSE <<<<Head(a)>> \o rest[1], <<Head(b)>> \o rest[2]>>

\* C17 as stated: for every pair of equal-length sequences
\* calculate_exact_alignment returns 100 * matches / reference bases,
\* rounded to two decimals.
C17_ExactAlignmentOfEveryPair ==
    \A i \in Loci : (Scaffold /\ Started(i)) =>
        \A n \in 1..Len(tree[i].files) :
          LET f == tree[i].files[n]
          IN  /\ ~ExactRaises(f.a, f.b)
              /\ IsPercentOf(calculate_exact_alignment(f.a, f.b),
                             RefMatches(f.a, f.b), RefBases(f.a))

\* C17 amended: the same for every pair whose a holds at least one non-gap
\* character; columns where a is a gap do not change the value; the records
\* carry it; calculate_exact_alignment("ACGT", "ACGA") = "75.00".
C17_ExactAlignmentOfReference ==
    /\ calculate_exact_alignment(<<"A", "C", "G", "T">>, <<"A", "C", "G", "A">>)
         = <<"7", "5", ".", "0", "0">>
    /\ \A i \in Loci : (Scaffold /\ Started(i)) =>
         \A n \in 1..Len(tree[i].files) :
           LET f == tree[i].files[n]
               g == DropGapColumns(f.a, f.b)
           IN  HasBase(f.a) =>
                 /\ ~ExactRaises(f.a, f.b)
                 /\ IsPercentOf(calculate_exact_alignment(f.a, f.b),
                                RefMatches(f.a, f.b), RefBases(f.a))
                 /\ calculate_exact_alignment(f.a, f.b)
                      = calculate_exact_alignment(g[1], g[2])
    /\ \A k \in 1..Len(puts) :
         (IsLine(puts[k]) /\ Scaffold) =>
           IsPercentOf(puts[k].nogap,
                       RefMatches(FileOf(puts[k]).a, FileOf(puts[k]).b),
                       RefBases(FileOf(puts[k]).a))

\* a record of an alignment with a reference gap, one match and one mismatch
C17_Witness ==
    \E k \in 1..Len(puts) :
        /\ IsLine(puts[k]) /\ Scaffold
        /\ puts[k].nogap = <<"5", "0", ".", "0", "0">>
        /\ \E c \in 1..Len(FileOf(puts[k]).a) : FileOf(puts[k]).a[c] = Gap

\* C18: only the listener writes to the output table, and every write
\* appends one whole record that was put on the channel.
C18_SingleWriter ==
    [][table' # table =>
         /\ lpc = "write" /\ lpc' = "get"
         /\ mainpc' = mainpc /\ jobs' = jobs /\ res' = res
         /\ IsLine(msg)
         /\ \E k \in 1..Len(puts) : puts[k] = msg
         /\ table' = Append(table, msg)]_vars

\* records of two loci written while a locus task is still running
C18_Witness ==
    /\ \E p, r \in 1..Len(Appended) :
         Appended[p].file.dir # Appended[r].file.dir
    /\ \E i \in 1..Len(jobs) : jobs[i] = "running"

\* s is a prefix of t
IsPrefix(s, t) == Len(s) <= Len(t) /\ SubSeq(t, 1, Len(s)) = s

\* C19: the output table is append-only: every step leaves what it held,
\* lines from before the run included, as a prefix of what it holds.
C19_AppendOnly == [][IsPrefix(table, table')]_vars

\* lines appended after a line the table held before the run
C19_Witness ==
    /\ Len(table) >= 3
    /\ table[1] = OldLine
    /\ Len(Appended) = Len(table) - 1

\* C20: with a concurrency limit c >= 1 at most c locus tasks execute at any
\* moment, the writer holding one of the c + 1 pool processes while any
\* locus task executes.
C20_AtMostCpusTasks ==
    args.cpus >= 1 =>
        /\ Cardinality({i \in 1..Len(jobs) : jobs[i] = "running"}) <= args.cpus
        /\ (\E i \in 1..Len(jobs) : jobs[i] = "running") =>
               lpc \in {"get", "write"}

\* C21: under fair scheduling, once the pool is created for a readable map,
\* the run terminates: every locus of the map was dispatched and executed,
\* the stop message was enqueued, the writer consumed it and ended without
\* writing it to the table, and neither main nor the writer waits forever.
C21_RunTerminates ==
    (mainpc = "dispatch" /\ env.map_ok) ~>
        /\ mainpc = "done"
        /\ Len(jobs) = nloci
        /\ \A i \in 1..Len(jobs) : jobs[i] \in {"done", "raised"}
        /\ \E k \in 1..Len(puts) : puts[k] = Stop
        /\ lpc = "done" /\ msg = Stop
        /\ \A n \in 1..Len(table) : table[n] # Stop

====
